---- MODULE Spec2Model ----
(***************************************************************************)
(* Model of the markdownlint MCP server (src/src/Python/server.py):        *)
(* the config-file ascent find_config_file and the tool dispatcher         *)
(* handle_call_tool running as coroutines on one asyncio event loop.       *)
(***************************************************************************)
EXTENDS Integers, Sequences, FiniteSets, TLC

(***************************************************************************)
(* Bounds of the model.                                                    *)
(***************************************************************************)
MaxDepth == 2      \* depth of the directory tree
MaxParts == 2      \* number of segments of a path string given as input
MaxConfigs == 3    \* number of config files present in the tree
NumTasks == 2      \* invocations the transport can have in flight together
MaxEmit == 2       \* fragments the engine prints during one call

(***************************************************************************)
(* The filesystem.  An absolute, normalised path is the sequence of its    *)
(* segments; the root directory is the empty sequence.                     *)
(***************************************************************************)
DirNames == {"a", "b"}
DocName == "doc.md"
Up == ".."

RECURSIVE SeqsUpTo(_, _)
SeqsUpTo(S, n) ==
    IF n = 0 THEN {<< >>}
    ELSE LET shorter == SeqsUpTo(S, n - 1)
         IN  shorter \cup {Append(s, x) : s \in {q \in shorter : Len(q) = n - 1}, x \in S}

RECURSIVE SubsetsUpTo(_, _)
SubsetsUpTo(S, n) ==
    IF n = 0 THEN {{}}
    ELSE LET smaller == SubsetsUpTo(S, n - 1)
         IN  smaller \cup {s \cup {x} : s \in smaller, x \in S}

\* the directory tree: a spine /a, /a/a, ... with a side directory b at each level
Spine == SeqsUpTo({"a"}, MaxDepth)
Dirs == Spine \cup {Append(d, "b") : d \in {s \in Spine : Len(s) < MaxDepth}}
Files == {Append(d, DocName) : d \in Dirs}
Root == << >>
Cwd == <<"a">>

\* config_names, in the order the loop tries them
config_names == <<".markdownlint.json", ".markdownlint.jsonc", ".markdownlintrc">>
ConfigNameSet == {config_names[i] : i \in 1..Len(config_names)}
ConfigPlaces == {Append(d, n) : d \in Dirs, n \in ConfigNameSet}

\* the trees considered: which config files exist
Layouts == SubsetsUpTo(ConfigPlaces, MaxConfigs)

\* Path.parent: the parent of the root is the root itself
Parent(p) == IF p = << >> THEN << >> ELSE SubSeq(p, 1, Len(p) - 1)

\* a path string as the caller writes it: absolute or relative, with ".."
InputPaths ==
    [abs : BOOLEAN, parts : SeqsUpTo(DirNames \cup {Up, DocName}, MaxParts)]

\* Path(p).resolve(): anchor a relative path at the working directory and
\* collapse ".." segments (".." at the root stays at the root)
RECURSIVE Walk(_, _)
Walk(base, parts) ==
    IF parts = << >> THEN base
    ELSE Walk(IF Head(parts) = Up THEN Parent(base) ELSE Append(base, Head(parts)),
              Tail(parts))

Resolve(p) == Walk(IF p.abs THEN Root ELSE Cwd, p.parts)

\* an optional string: None, or a path
None == [some |-> FALSE, path |-> << >>]
Some(p) == [some |-> TRUE, path |-> p]

Tasks == 1..NumTasks
NoTask == 0
OrigStream == 0     \* the stream sys.stdout is bound to at start-up

VARIABLES
    configs,        \* the config files present on the filesystem (absolute paths)
    fc_pc,          \* "ready" | "returned": a direct call of find_config_file
    fc_target,      \* the argument of that call
    fc_result,      \* its return value
    PyMarkdownApi,  \* TRUE when the import at start-up succeeded, FALSE for None
    sys_stdout,     \* OrigStream, or the task whose StringIO it is bound to
    loop_owner,     \* the coroutine the event loop is running, or NoTask
    pc,             \* position of each invocation of handle_call_tool
    request,        \* its parameters: name and arguments
    file_path,      \* local file_path after resolve()
    config_path,    \* local config_path
    api_config,     \* configuration file applied to the api object
    output_buffer,  \* contents of the invocation's StringIO
    original_stdout,\* local original_stdout
    emitted,        \* fragments the engine call has printed so far
    trace,          \* the effects the invocation has performed, in order
    response,       \* what the invocation returned or raised
    engine_result,  \* how the try block went: result flag or exception raised
    tools_listed,   \* the value the last call of handle_list_tools returned
    fc_dir,         \* current_dir of a call of find_config_file run step by step
    fc_ascents      \* iterations of its loop that moved to the parent

findVars == <<fc_pc, fc_target, fc_result, fc_dir, fc_ascents>>
toolVars == <<PyMarkdownApi, sys_stdout, loop_owner, pc, request, file_path,
              config_path, api_config, output_buffer, original_stdout,
              emitted, trace, response, engine_result, tools_listed>>
vars == <<configs, findVars, toolVars>>

\* Path.is_file() and Path.exists() on an absolute path
IsFile(p) == p \in Files \/ p \in configs
\* an existence test applied to the containing directory instead of the path
Exists_parent(p) == Parent(p) \in Dirs \/ IsFile(Parent(p))

Exists(p) == p \in Dirs \/ IsFile(p)

(***************************************************************************)
(* find_config_file                                                        *)
(***************************************************************************)
\* line 40: the directory the search starts in
StartDir(file_path_obj) ==
    IF IsFile(file_path_obj) THEN Parent(file_path_obj) ELSE file_path_obj

\* lines 46-49: the first candidate name, in list order, that exists in dir
FirstMatch(current_dir) ==
    LET hits == {i \in 1..Len(config_names) :
                    Exists(Append(current_dir, config_names[i]))}
    IN  IF hits = {} THEN None
        ELSE Some(Append(current_dir,
                         config_names[CHOOSE i \in hits : \A j \in hits : i <= j]))

\* line 52: the value returned when the loop ends without a match
AscentExhausted_default(current_dir) == Some(Append(current_dir, config_names[1]))

AscentExhausted(current_dir) == None

\* lines 45-52: the while loop
RECURSIVE Ascent(_)
Ascent(current_dir) ==
    IF current_dir = Parent(current_dir) THEN AscentExhausted(current_dir)
    ELSE IF FirstMatch(current_dir).some THEN FirstMatch(current_dir)
    ELSE Ascent(Parent(current_dir))

find_config_file(target) == Ascent(StartDir(Resolve(target)))

(***************************************************************************)
(* Requests.  An argument value is missing (dict.get gives None), the      *)
(* empty string, or a path string.                                         *)
(***************************************************************************)
NoPath == [abs |-> FALSE, parts |-> << >>]
Missing == [kind |-> "missing", p |-> NoPath]
EmptyStr == [kind |-> "empty", p |-> NoPath]
PathStr(p) == [kind |-> "path", p |-> p]

\* a test for None that lets the empty string through
Truthy_notNone(v) == v.kind # "missing"

\* truth value of an optional string, as in "if not file_path"
Truthy(v) == v.kind = "path"

\* str(path) of an absolute path
StrOf(abspath) == PathStr([abs |-> TRUE, parts |-> abspath])

\* arguments: None (given = FALSE) or a dict with the listed keys
NoArguments == [given |-> FALSE, file_path |-> Missing, config_path |-> Missing]
Dict(f, c) == [given |-> TRUE, file_path |-> f, config_path |-> c]

\* a test for None that lets the empty dict through
ArgumentsTruthy_notNone(a) == a.given

\* truth value of the dict, as in "if not arguments"
ArgumentsTruthy(a) ==
    a.given /\ (a.file_path.kind # "missing" \/ a.config_path.kind # "missing")

ToolNames == {"lint_markdown", "fix_markdown"}

\* lines 62-75 and 80-93: the inputSchema shared by both tools
InputSchema ==
    [type |-> "object",
     properties |-> [file_path |-> "string", config_path |-> "string"],
     required |-> <<"file_path">>]

\* a catalog listing the fix tool first
handle_list_tools_reordered ==
    << [name |-> "fix_markdown", inputSchema |-> InputSchema],
       [name |-> "lint_markdown", inputSchema |-> InputSchema] >>

\* lines 56-95: the list handle_list_tools returns
handle_list_tools ==
    << [name |-> "lint_markdown", inputSchema |-> InputSchema],
       [name |-> "fix_markdown", inputSchema |-> InputSchema] >>

\* no call of handle_list_tools has returned yet
NotListed == << >>
OtherName == "unknown_tool"

ToolPaths ==
    { [abs |-> FALSE, parts |-> <<"b", DocName>>],       \* existing file /a/b/doc.md
      [abs |-> FALSE, parts |-> <<Up, DocName>>],        \* existing file /doc.md
      [abs |-> TRUE,  parts |-> <<"a">>],                \* existing directory /a
      [abs |-> TRUE,  parts |-> <<DocName, DocName>>] }  \* no such path
SuppliedConfig == [abs |-> FALSE, parts |-> <<"my", "rules.json">>]

Requests ==
    [name : ToolNames \cup {OtherName},
     arguments : {NoArguments} \cup
                 {Dict(f, c) : f \in {Missing, EmptyStr} \cup {PathStr(p) : p \in ToolPaths},
                               c \in {Missing, EmptyStr, PathStr(SuppliedConfig)}}]

ConcurrentRequests ==
    [name : ToolNames,
     arguments : {Dict(PathStr(p), Missing) :
                     p \in { [abs |-> FALSE, parts |-> <<"b", DocName>>],
                             [abs |-> TRUE,  parts |-> <<DocName, DocName>>] }}]

NoRequest == [name |-> OtherName, arguments |-> NoArguments]

(***************************************************************************)
(* Responses: the message template of the text block or of the ValueError, *)
(* whether it was raised, and the values formatted into it.                *)
(***************************************************************************)
Returned(template, path, output, note) ==
    [template |-> template, raised |-> FALSE, path |-> path,
     output |-> output, note |-> note]
Raised(template) ==
    [template |-> template, raised |-> TRUE, path |-> << >>,
     output |-> << >>, note |-> ""]
NoResponse == Returned("", << >>, << >>, "")

\* the test on scan_failures inverted
LintResponse_inverted(path, scan_failures, output) ==
    IF scan_failures
    THEN Returned("No linting errors found in", path, << >>, "")
    ELSE Returned("Linting errors found in", path, output,
                  IF output # << >> THEN ""
                  ELSE "Issues found but no detailed output.")

\* lines 156-171: the text block built from the scan result
LintResponse(path, scan_failures, output) ==
    IF ~scan_failures
    THEN Returned("No linting errors found in", path, << >>, "")
    ELSE Returned("Linting errors found in", path, output,
                  IF output # << >> THEN ""
                  ELSE "Issues found but no detailed output.")

\* the two branches on files_fixed exchanged
FixResponse_swapped(path, files_fixed, output) ==
    IF ~files_fixed
    THEN Returned("Fixed linting issues in", path, output,
                  IF output # << >> THEN ""
                  ELSE "All auto-fixable issues have been resolved.")
    ELSE Returned("No auto-fixable issues found in", path, output,
                  IF output # << >> THEN ""
                  ELSE "File may already be compliant or issues require manual fixing.")

\* lines 231-246: the text block built from the fix result
FixResponse(path, files_fixed, output) ==
    IF files_fixed
    THEN Returned("Fixed linting issues in", path, output,
                  IF output # << >> THEN ""
                  ELSE "All auto-fixable issues have been resolved.")
    ELSE Returned("No auto-fixable issues found in", path, output,
                  IF output # << >> THEN ""
                  ELSE "File may already be compliant or issues require manual fixing.")

\* the except clauses without the catch-all: other exceptions propagate
ExceptResponse_reraise(name, exc, path) ==
    IF exc.kind = "api"
    THEN Returned(IF name = "lint_markdown" THEN "Error linting" ELSE "Error fixing",
                  path, << >>, exc.msg)
    ELSE Raised(IF name = "lint_markdown" THEN "Error running pymarkdown"
                ELSE "Error running pymarkdown fix")

\* a catch-all that swallows the failure and reports a clean run
ExceptResponse_swallow(name, exc, path) ==
    IF exc.kind = "api"
    THEN Returned(IF name = "lint_markdown" THEN "Error linting" ELSE "Error fixing",
                  path, << >>, exc.msg)
    ELSE Returned(IF name = "lint_markdown" THEN "No linting errors found in"
                  ELSE "No auto-fixable issues found in",
                  path, << >>, "")

\* lines 175-188 and 250-263: the except clauses
ExceptResponse(name, exc, path) ==
    IF exc.kind = "api"
    THEN Returned(IF name = "lint_markdown" THEN "Error linting" ELSE "Error fixing",
                  path, << >>, exc.msg)
    ELSE Returned(IF name = "lint_markdown" THEN "Error running pymarkdown"
                  ELSE "Error running pymarkdown fix",
                  << >>, << >>, exc.msg)

\* exceptions: PyMarkdownApiException or any other Exception, with a message
Exceptions == [kind : {"api", "other"}, msg : {"boom"}]
NoException == [kind |-> "none", msg |-> ""]

\* how the try block of an invocation went so far
NoResult == [status |-> "none", flag |-> FALSE, exc |-> NoException]
ResultOf(flag) == [status |-> "returned", flag |-> flag, exc |-> NoException]
RaisedIn(exc) == [status |-> "raised", flag |-> FALSE, exc |-> exc]

\* the outcome of the design's taxonomy that a response stands for
Outcome(r) ==
    CASE r.template \in {"Missing arguments", "file_path is required"} -> "ValidationError"
      [] r.template = "Unknown tool" -> "UnknownOperation"
      [] r.template = "pymarkdownlnt is not installed" -> "EngineUnavailable"
      [] r.template = "File not found" -> "NotFound"
      [] r.template \in {"No linting errors found in", "Linting errors found in",
                         "Fixed linting issues in"} -> "Success"
      [] r.template = "No auto-fixable issues found in" -> "NoOp"
      [] r.template \in {"Error linting", "Error fixing"} -> "EngineError"
      [] r.template \in {"Error running pymarkdown",
                         "Error running pymarkdown fix"} -> "UnexpectedError"
      [] OTHER -> "none"

(***************************************************************************)
(* handle_call_tool.  Each invocation is a coroutine on the event loop:    *)
(* once the loop runs it, it keeps the loop until it awaits or finishes.   *)
(***************************************************************************)
NoInvocations ==
    /\ sys_stdout = OrigStream
    /\ loop_owner = NoTask
    /\ pc = [t \in Tasks |-> "idle"]
    /\ request = [t \in Tasks |-> NoRequest]
    /\ file_path = [t \in Tasks |-> << >>]
    /\ config_path = [t \in Tasks |-> Missing]
    /\ api_config = [t \in Tasks |-> Missing]
    /\ output_buffer = [t \in Tasks |-> << >>]
    /\ original_stdout = [t \in Tasks |-> OrigStream]
    /\ emitted = [t \in Tasks |-> 0]
    /\ trace = [t \in Tasks |-> << >>]
    /\ response = [t \in Tasks |-> NoResponse]
    /\ engine_result = [t \in Tasks |-> NoResult]
    /\ tools_listed = NotListed

\* an "await" inside the engine call would hand the loop to other coroutines
HasAwait_engine(position) == position = "engine"

\* lines 98-266: the body of handle_call_tool contains no await expression
HasAwait(position) == FALSE

InHandler(t) == pc[t] \notin {"idle", "pending", "done"}
Runnable(t) == InHandler(t) /\ loop_owner \in {NoTask, t}

\* the loop owner after the invocation moved to the given position
OwnerAt(t, position) == IF HasAwait(position) THEN NoTask ELSE t

Goto(t, position) ==
    /\ pc' = [pc EXCEPT ![t] = position]
    /\ loop_owner' = OwnerAt(t, position)

\* the invocation ends: the value is returned, or the exception propagates
Finish(t, r) ==
    /\ pc' = [pc EXCEPT ![t] = "done"]
    /\ loop_owner' = NoTask
    /\ response' = [response EXCEPT ![t] = r]

Log(t, event) == trace' = [trace EXCEPT ![t] = Append(@, event)]

\* the transport hands a request to the server, which creates the coroutine
Deliver(t, r) ==
    /\ pc[t] = "idle"
    /\ loop_owner = NoTask
    /\ pc' = [pc EXCEPT ![t] = "pending"]
    /\ request' = [request EXCEPT ![t] = r]
    /\ UNCHANGED <<configs, findVars, tools_listed, engine_result, PyMarkdownApi, sys_stdout, loop_owner,
                   file_path, config_path, api_config, output_buffer,
                   original_stdout, emitted, trace, response>>

\* the event loop starts running the coroutine
Begin(t) ==
    /\ pc[t] = "pending"
    /\ loop_owner = NoTask
    /\ Goto(t, "check_arguments")
    /\ UNCHANGED <<configs, findVars, tools_listed, engine_result, PyMarkdownApi, sys_stdout, request,
                   file_path, config_path, api_config, output_buffer,
                   original_stdout, emitted, trace, response>>

\* lines 104-105
CheckArguments(t) ==
    /\ pc[t] = "check_arguments" /\ Runnable(t)
    /\ IF ~ArgumentsTruthy(request[t].arguments)
       THEN Finish(t, Raised("Missing arguments"))
       ELSE Goto(t, "check_engine") /\ UNCHANGED response
    /\ UNCHANGED <<configs, findVars, tools_listed, engine_result, PyMarkdownApi, sys_stdout, request,
                   file_path, config_path, api_config, output_buffer,
                   original_stdout, emitted, trace>>

\* a test that never sees the failed import
Unavailable_never(api_class) == FALSE

\* line 107: PyMarkdownApi is None
Unavailable(api_class) == api_class = FALSE

\* lines 107-113
CheckEngine(t) ==
    /\ pc[t] = "check_engine" /\ Runnable(t)
    /\ IF Unavailable(PyMarkdownApi)
       THEN Finish(t, Returned("pymarkdownlnt is not installed", << >>, << >>, ""))
       ELSE Goto(t, "route") /\ UNCHANGED response
    /\ UNCHANGED <<configs, findVars, tools_listed, engine_result, PyMarkdownApi, sys_stdout, request,
                   file_path, config_path, api_config, output_buffer,
                   original_stdout, emitted, trace>>

\* an if/else chain whose last branch takes every other name
Branch_fallthrough(name) == IF name = "lint_markdown" THEN "lint" ELSE "fix"

\* lines 115, 190, 265: the if / elif / else chain on the tool name
Branch(name) ==
    CASE name = "lint_markdown" -> "lint"
      [] name = "fix_markdown" -> "fix"
      [] OTHER -> "unknown"

\* lines 115, 190, 265-266
Route(t) ==
    /\ pc[t] = "route" /\ Runnable(t)
    /\ IF Branch(request[t].name) # "unknown"
       THEN Goto(t, "check_file_path") /\ UNCHANGED response
       ELSE Finish(t, Raised("Unknown tool"))
    /\ UNCHANGED <<configs, findVars, tools_listed, engine_result, PyMarkdownApi, sys_stdout, request,
                   file_path, config_path, api_config, output_buffer,
                   original_stdout, emitted, trace>>

\* lines 116-123 and 191-198
CheckFilePath(t) ==
    /\ pc[t] = "check_file_path" /\ Runnable(t)
    /\ IF ~Truthy(request[t].arguments.file_path)
       THEN /\ Finish(t, Raised("file_path is required"))
            /\ UNCHANGED <<file_path, config_path, trace>>
       ELSE /\ file_path' = [file_path EXCEPT ![t] = Resolve(request[t].arguments.file_path.p)]
            /\ config_path' = [config_path EXCEPT ![t] = request[t].arguments.config_path]
            /\ Log(t, "resolve")
            /\ Goto(t, "check_exists")
            /\ UNCHANGED response
    /\ UNCHANGED <<configs, findVars, tools_listed, engine_result, PyMarkdownApi, sys_stdout, request,
                   api_config, output_buffer, original_stdout, emitted>>

\* lines 125-131 and 200-206
CheckExists(t) ==
    /\ pc[t] = "check_exists" /\ Runnable(t)
    /\ Log(t, "exists")
    /\ IF ~Exists(file_path[t])
       THEN Finish(t, Returned("File not found", file_path[t], << >>, ""))
       ELSE Goto(t, "construct") /\ UNCHANGED response
    /\ UNCHANGED <<configs, findVars, tools_listed, engine_result, PyMarkdownApi, sys_stdout, request,
                   file_path, config_path, api_config, output_buffer,
                   original_stdout, emitted>>

\* the handler of an exception raised inside the outer try block
Except(t, exc) ==
    /\ Finish(t, ExceptResponse(request[t].name, exc, file_path[t]))
    /\ engine_result' = [engine_result EXCEPT ![t] = RaisedIn(exc)]

\* a handler that opens the capture window as soon as the engine is built
Construct_capturing(t) ==
    /\ pc[t] = "construct" /\ Runnable(t)
    /\ original_stdout' = [original_stdout EXCEPT ![t] = sys_stdout]
    /\ sys_stdout' = t
    /\ Log(t, "construct")
    /\ Goto(t, "resolve_config")
    /\ UNCHANGED <<configs, findVars, tools_listed, engine_result, PyMarkdownApi, request,
                   file_path, config_path, api_config, output_buffer,
                   emitted, response>>

\* lines 135 and 210: api = PyMarkdownApi()
Construct(t) ==
    /\ pc[t] = "construct" /\ Runnable(t)
    /\ Log(t, "construct")
    /\ Goto(t, "resolve_config")
    /\ UNCHANGED <<configs, findVars, tools_listed, engine_result, PyMarkdownApi, sys_stdout, request,
                   file_path, config_path, api_config, output_buffer,
                   original_stdout, emitted, response>>

ConstructRaises(t, exc) ==
    /\ pc[t] = "construct" /\ Runnable(t)
    /\ Log(t, "construct")
    /\ Except(t, exc)
    /\ UNCHANGED <<configs, findVars, tools_listed, PyMarkdownApi, sys_stdout, request,
                   file_path, config_path, api_config, output_buffer,
                   original_stdout, emitted>>

\* discovery that runs even when the caller gave a config_path
NeedsDiscovery_always(value) == TRUE

\* lines 138 and 213: if not config_path
NeedsDiscovery(value) == ~Truthy(value)

\* lines 138-139 and 213-214
ResolveConfig(t) ==
    /\ pc[t] = "resolve_config" /\ Runnable(t)
    /\ IF NeedsDiscovery(config_path[t])
       THEN /\ config_path' =
                  [config_path EXCEPT ![t] =
                      LET found == find_config_file([abs |-> TRUE, parts |-> file_path[t]])
                      IN  IF found.some THEN StrOf(found.path) ELSE Missing]
            /\ Log(t, "find_config")
       ELSE UNCHANGED <<config_path, trace>>
    /\ Goto(t, "configure")
    /\ UNCHANGED <<configs, findVars, tools_listed, engine_result, PyMarkdownApi, sys_stdout, request,
                   file_path, api_config, output_buffer, original_stdout,
                   emitted, response>>

\* lines 139 and 214: a filesystem test inside find_config_file raises
ResolveConfigRaises(t, exc) ==
    /\ pc[t] = "resolve_config" /\ Runnable(t)
    /\ NeedsDiscovery(config_path[t])
    /\ Log(t, "find_config")
    /\ Except(t, exc)
    /\ UNCHANGED <<configs, findVars, tools_listed, PyMarkdownApi, sys_stdout, request,
                   file_path, config_path, api_config, output_buffer,
                   original_stdout, emitted>>

\* lines 142-143 and 217-218
Configure(t) ==
    /\ pc[t] = "configure" /\ Runnable(t)
    /\ IF Truthy(config_path[t])
       THEN /\ api_config' = [api_config EXCEPT ![t] = config_path[t]]
            /\ Log(t, "configure")
       ELSE UNCHANGED <<api_config, trace>>
    /\ Goto(t, "redirect")
    /\ UNCHANGED <<configs, findVars, tools_listed, engine_result, PyMarkdownApi, sys_stdout, request,
                   file_path, config_path, output_buffer, original_stdout,
                   emitted, response>>

ConfigureRaises(t, exc) ==
    /\ pc[t] = "configure" /\ Runnable(t)
    /\ Truthy(config_path[t])
    /\ Log(t, "configure")
    /\ Except(t, exc)
    /\ UNCHANGED <<configs, findVars, tools_listed, PyMarkdownApi, sys_stdout, request,
                   file_path, config_path, api_config, output_buffer,
                   original_stdout, emitted>>

\* lines 146-148 and 221-223
Redirect(t) ==
    /\ pc[t] = "redirect" /\ Runnable(t)
    /\ output_buffer' = [output_buffer EXCEPT ![t] = << >>]
    /\ original_stdout' = [original_stdout EXCEPT ![t] = sys_stdout]
    /\ sys_stdout' = t
    /\ Log(t, "redirect")
    /\ Goto(t, "call")
    /\ UNCHANGED <<configs, findVars, tools_listed, engine_result, PyMarkdownApi, request, file_path,
                   config_path, api_config, emitted, response>>

\* lines 152 and 227: api.scan_path / api.fix_path is entered
EngineCall(t) ==
    /\ pc[t] = "call" /\ Runnable(t)
    /\ Log(t, "engine")
    /\ Goto(t, "engine")
    /\ UNCHANGED <<configs, findVars, tools_listed, engine_result, PyMarkdownApi, sys_stdout, request,
                   file_path, config_path, api_config, output_buffer,
                   original_stdout, emitted, response>>

\* the engine prints a fragment to whatever sys.stdout is bound to
EngineEmit(t) ==
    /\ pc[t] = "engine" /\ Runnable(t)
    /\ emitted[t] < MaxEmit
    /\ emitted' = [emitted EXCEPT ![t] = @ + 1]
    /\ output_buffer' =
          IF sys_stdout = OrigStream THEN output_buffer
          ELSE [output_buffer EXCEPT ![sys_stdout] =
                    Append(@, [by |-> t, n |-> emitted[t] + 1])]
    /\ Goto(t, "engine")
    /\ UNCHANGED <<configs, findVars, tools_listed, engine_result, PyMarkdownApi, sys_stdout, request,
                   file_path, config_path, api_config, original_stdout,
                   trace, response>>

\* the finally clause alone would leave sys.stdout as it finds it
StdoutAfterFinally_skipped(current, t) == current

\* lines 172-173 and 247-248: finally: sys.stdout = original_stdout
StdoutAfterFinally(current, t) == original_stdout[t]

\* lines 152-173 and 227-248: the engine call returns its result
EngineReturn(t, flag) ==
    /\ pc[t] = "engine" /\ Runnable(t)
    /\ sys_stdout' = StdoutAfterFinally(original_stdout[t], t)
    /\ Log(t, "restore")
    /\ Finish(t, IF Branch(request[t].name) = "lint"
                 THEN LintResponse(file_path[t], flag, output_buffer[t])
                 ELSE FixResponse(file_path[t], flag, output_buffer[t]))
    /\ engine_result' = [engine_result EXCEPT ![t] = ResultOf(flag)]
    /\ UNCHANGED <<configs, findVars, tools_listed, PyMarkdownApi, request, file_path,
                   config_path, api_config, output_buffer, original_stdout,
                   emitted>>

\* an except clause that calls the engine a second time before giving up
EngineRaises_retry(t, exc) ==
    /\ pc[t] = "engine" /\ Runnable(t)
    /\ sys_stdout' = StdoutAfterFinally(sys_stdout, t)
    /\ IF Len(SelectSeq(trace[t], LAMBDA e : e = "engine")) < 2
       THEN /\ trace' = [trace EXCEPT ![t] = Append(Append(@, "restore"), "engine")]
            /\ Goto(t, "engine")
            /\ UNCHANGED <<response, engine_result>>
       ELSE /\ Log(t, "restore")
            /\ Except(t, exc)
    /\ UNCHANGED <<configs, findVars, tools_listed, PyMarkdownApi, request, file_path,
                   config_path, api_config, output_buffer, original_stdout,
                   emitted>>

\* the engine call raises: the finally clause runs, then the except clause
EngineRaises(t, exc) ==
    /\ pc[t] = "engine" /\ Runnable(t)
    /\ sys_stdout' = StdoutAfterFinally(sys_stdout, t)
    /\ Log(t, "restore")
    /\ Except(t, exc)
    /\ UNCHANGED <<configs, findVars, tools_listed, PyMarkdownApi, request, file_path,
                   config_path, api_config, output_buffer, original_stdout,
                   emitted>>

\* the response has been sent and the coroutine is gone
Retire(t) ==
    /\ pc[t] = "done"
    /\ pc' = [pc EXCEPT ![t] = "idle"]
    /\ request' = [request EXCEPT ![t] = NoRequest]
    /\ file_path' = [file_path EXCEPT ![t] = << >>]
    /\ config_path' = [config_path EXCEPT ![t] = Missing]
    /\ api_config' = [api_config EXCEPT ![t] = Missing]
    /\ output_buffer' = [output_buffer EXCEPT ![t] = << >>]
    /\ original_stdout' = [original_stdout EXCEPT ![t] = OrigStream]
    /\ emitted' = [emitted EXCEPT ![t] = 0]
    /\ trace' = [trace EXCEPT ![t] = << >>]
    /\ response' = [response EXCEPT ![t] = NoResponse]
    /\ engine_result' = [engine_result EXCEPT ![t] = NoResult]
    /\ UNCHANGED <<configs, findVars, tools_listed, PyMarkdownApi, sys_stdout, loop_owner>>

\* lines 55-95: a call of handle_list_tools runs on the event loop and returns
ListTools ==
    /\ loop_owner = NoTask
    /\ tools_listed' = handle_list_tools
    /\ UNCHANGED <<configs, findVars, PyMarkdownApi, sys_stdout, loop_owner, pc,
                   request, file_path, config_path, api_config, output_buffer,
                   original_stdout, emitted, trace, response, engine_result>>

Handler(t) ==
    \/ Begin(t)
    \/ CheckArguments(t)
    \/ CheckEngine(t)
    \/ Route(t)
    \/ CheckFilePath(t)
    \/ CheckExists(t)
    \/ Construct(t)
    \/ \E exc \in Exceptions : ConstructRaises(t, exc)
    \/ ResolveConfig(t)
    \/ \E exc \in Exceptions : ResolveConfigRaises(t, exc)
    \/ Configure(t)
    \/ \E exc \in Exceptions : ConfigureRaises(t, exc)
    \/ Redirect(t)
    \/ EngineCall(t)
    \/ EngineEmit(t)
    \/ \E flag \in BOOLEAN : EngineReturn(t, flag)
    \/ \E exc \in Exceptions : EngineRaises(t, exc)
    \/ Retire(t)

(***************************************************************************)
(* The server handling one request at a time, over every request.          *)
(***************************************************************************)
ToolLayouts == SubsetsUpTo(ConfigPlaces, 1)

Init ==
    /\ configs \in ToolLayouts
    /\ fc_pc = "ready"
    /\ fc_target = [abs |-> TRUE, parts |-> << >>]
    /\ fc_result = None
    /\ fc_dir = << >>
    /\ fc_ascents = 0
    /\ PyMarkdownApi \in BOOLEAN
    /\ NoInvocations

Next ==
    \/ \E r \in Requests : Deliver(1, r)
    \/ Handler(1)
    \/ ListTools

Spec == Init /\ [][Next]_vars

(***************************************************************************)
(* The server with several requests delivered before any is handled.       *)
(***************************************************************************)
InitConcurrent ==
    /\ configs = {<<"a", config_names[1]>>}
    /\ fc_pc = "ready"
    /\ fc_target = [abs |-> TRUE, parts |-> << >>]
    /\ fc_result = None
    /\ fc_dir = << >>
    /\ fc_ascents = 0
    /\ PyMarkdownApi = TRUE
    /\ NoInvocations

NextConcurrent ==
    \E t \in Tasks :
        \/ \E r \in ConcurrentRequests : Deliver(t, r)
        \/ Handler(t)

SpecConcurrent == InitConcurrent /\ [][NextConcurrent]_vars

(***************************************************************************)
(* A direct call of find_config_file on an arbitrary tree and target.      *)
(***************************************************************************)
InitFind ==
    /\ configs \in Layouts
    /\ fc_pc = "ready"
    /\ fc_target = [abs |-> TRUE, parts |-> << >>]
    /\ fc_result = None
    /\ fc_dir = << >>
    /\ fc_ascents = 0
    /\ PyMarkdownApi = TRUE
    /\ NoInvocations

FindCall(p) ==
    /\ fc_pc = "ready"
    /\ fc_pc' = "returned"
    /\ fc_target' = p
    /\ fc_result' = find_config_file(p)
    /\ UNCHANGED <<configs, toolVars, fc_dir, fc_ascents>>

NextFind == \E p \in InputPaths : FindCall(p)

SpecFind == InitFind /\ [][NextFind]_vars

(***************************************************************************)
(* The loop of find_config_file run one iteration at a time.               *)
(***************************************************************************)
\* the deepest directory a bounded input path can resolve to
AscentCap == Len(Cwd) + MaxParts

\* an iteration that forgets to move up
NextDir_stay(current_dir) == current_dir

\* line 50: current_dir = current_dir.parent
NextDir(current_dir) == Parent(current_dir)

InitAscent ==
    /\ configs \in ToolLayouts
    /\ fc_pc = "ready"
    /\ fc_target = [abs |-> TRUE, parts |-> << >>]
    /\ fc_result = None
    /\ fc_dir = << >>
    /\ fc_ascents = 0
    /\ PyMarkdownApi = TRUE
    /\ NoInvocations

\* lines 37-43: resolve the target and choose the start directory
AscentStart(p) ==
    /\ fc_pc = "ready"
    /\ fc_pc' = "loop"
    /\ fc_target' = p
    /\ fc_dir' = StartDir(Resolve(p))
    /\ UNCHANGED <<configs, toolVars, fc_result, fc_ascents>>

\* lines 45-52: the loop test and one iteration
AscentStep ==
    /\ fc_pc = "loop"
    /\ fc_ascents <= AscentCap
    /\ IF fc_dir = Parent(fc_dir)
       THEN /\ fc_pc' = "returned"
            /\ fc_result' = AscentExhausted(fc_dir)
            /\ UNCHANGED <<fc_dir, fc_ascents>>
       ELSE IF FirstMatch(fc_dir).some
       THEN /\ fc_pc' = "returned"
            /\ fc_result' = FirstMatch(fc_dir)
            /\ UNCHANGED <<fc_dir, fc_ascents>>
       ELSE /\ fc_dir' = NextDir(fc_dir)
            /\ fc_ascents' = fc_ascents + 1
            /\ UNCHANGED <<fc_pc, fc_result>>
    /\ UNCHANGED <<configs, toolVars, fc_target>>

NextAscent ==
    \/ \E p \in InputPaths : AscentStart(p)
    \/ AscentStep

\* the loop is sequential code: an iteration that can run does run
SpecAscent == InitAscent /\ [][NextAscent]_vars /\ WF_vars(AscentStep)

(***************************************************************************)
(* Properties of find_config_file.                                         *)
(***************************************************************************)
\* the directory the search is specified to start in
SearchStart(p) ==
    LET r == Resolve(p)
    IN  IF r \in Files \cup configs THEN Parent(r) ELSE r

\* the directories from d up to and including the root
Chain(d) == {SubSeq(d, 1, k) : k \in 0..Len(d)}

NamesIn(d) == {i \in 1..Len(config_names) : Append(d, config_names[i]) \in configs}
ChainMatches(d) == {c \in Chain(d) : NamesIn(c) # {}}
Nearest(d) == CHOOSE c \in ChainMatches(d) : \A e \in ChainMatches(d) : Len(e) <= Len(c)
Preferred(d) == Append(d, config_names[CHOOSE i \in NamesIn(d) : \A j \in NamesIn(d) : i <= j])

\* C1: whenever some directory from the start directory up to and including
\* the root holds a recognized config file, find_config_file returns an
\* existing config file of the nearest such directory (the root included).
C1_NearestIncludingRoot ==
    (fc_pc = "returned" /\ ChainMatches(SearchStart(fc_target)) # {})
        => /\ fc_result.some
           /\ fc_result.path \in configs
           /\ Parent(fc_result.path) = Nearest(SearchStart(fc_target))

\* C2: when the nearest directory with a match holds several recognized
\* names, the call returns the one that comes first in the order
\* .markdownlint.json, .markdownlint.jsonc, .markdownlintrc.
C2_PriorityInNearestDir ==
    (/\ fc_pc = "returned"
     /\ ChainMatches(SearchStart(fc_target)) # {}
     /\ Cardinality(NamesIn(Nearest(SearchStart(fc_target)))) >= 2)
        => fc_result = Some(Preferred(Nearest(SearchStart(fc_target))))

\* C3: when no directory from the start directory up to and including the
\* root holds a recognized config file, find_config_file returns None.
C3_AbsentWhenNoConfig ==
    (fc_pc = "returned" /\ ChainMatches(SearchStart(fc_target)) = {})
        => fc_result = None

\* a call that ascended at least two levels past config files lying off
\* the chain and returned None
C3_Witness ==
    /\ fc_pc = "returned"
    /\ Len(SearchStart(fc_target)) >= 2
    /\ configs # {}
    /\ ChainMatches(SearchStart(fc_target)) = {}
    /\ fc_result = None
    /\ fc_dir = << >>
    /\ fc_ascents = 0

(***************************************************************************)
(* Properties of handle_call_tool.                                         *)
(***************************************************************************)
Done(t) == pc[t] = "done"
Args(t) == request[t].arguments
FilePathGiven(t) == Args(t).file_path.kind = "path"
Target(t) == Resolve(Args(t).file_path.p)
OnDisk(p) == p \in Dirs \cup Files \cup configs
DictNonEmpty(a) == a.given /\ (a.file_path # Missing \/ a.config_path # Missing)
EngineSteps == {"construct", "configure", "redirect", "engine", "restore"}
Events(t) == {trace[t][i] : i \in 1..Len(trace[t])}
EngineUntouched(t) == Events(t) \cap EngineSteps = {}
NotFoundBlock(t) == Returned("File not found", Target(t), << >>, "")

\* C4 as stated: every call whose file_path normalizes to a path that does
\* not exist ends in NotFound, and the engine is never called during it.
C4_MissingTargetAlwaysNotFound ==
    \A t \in Tasks :
        (pc[t] # "idle" /\ FilePathGiven(t) /\ ~OnDisk(Target(t)))
            => /\ EngineUntouched(t)
               /\ Done(t) => response[t] = NotFoundBlock(t)

\* C4 amended: a call of lint_markdown or fix_markdown made while the engine
\* is available, whose file_path normalizes to a path that does not exist,
\* ends in the returned block "Error: File not found: <path>"; and in every
\* call whose file_path normalizes to such a path the engine is never
\* constructed, configured or called.
C4_MissingTargetNotFound ==
    \A t \in Tasks :
        (pc[t] # "idle" /\ FilePathGiven(t) /\ ~OnDisk(Target(t)))
            => /\ EngineUntouched(t)
               /\ (Done(t) /\ request[t].name \in ToolNames /\ PyMarkdownApi)
                      => response[t] = NotFoundBlock(t)

\* a finished lint of a path that does not exist, reached through the
\* existence check
C4_Witness ==
    \E t \in Tasks :
        /\ Done(t) /\ PyMarkdownApi
        /\ request[t].name = "lint_markdown"
        /\ FilePathGiven(t) /\ ~OnDisk(Target(t))
        /\ trace[t] = <<"resolve", "exists">>
        /\ response[t] = NotFoundBlock(t)

\* C5: a call with absent or empty arguments ends in the raised
\* ValidationError "Missing arguments" for every tool name and engine state,
\* and performs no filesystem check, config resolution, redirection or
\* engine call.
C5_EmptyArgumentsRejected ==
    \A t \in Tasks :
        (pc[t] # "idle" /\ ~DictNonEmpty(Args(t)))
            => /\ trace[t] = << >>
               /\ sys_stdout # t
               /\ Done(t) => response[t] = Raised("Missing arguments")

\* an empty dict sent to an unknown tool while the engine is unavailable
C5_Witness ==
    \E t \in Tasks :
        /\ Done(t) /\ ~PyMarkdownApi
        /\ request[t].name = OtherName
        /\ Args(t) = Dict(Missing, Missing)
        /\ response[t] = Raised("Missing arguments")

\* C6 as stated: a call with a name outside the catalog and with file_path
\* ends in UnknownOperation in every state, engine unavailable included.
C6_UnknownToolAlways ==
    \A t \in Tasks :
        (Done(t) /\ request[t].name \notin ToolNames /\ FilePathGiven(t))
            => Outcome(response[t]) = "UnknownOperation"

\* C6 amended: a call with a name outside the catalog and with file_path
\* ends in UnknownOperation whenever the engine capability is available.
C6_UnknownToolWhenEngineAvailable ==
    \A t \in Tasks :
        (Done(t) /\ request[t].name \notin ToolNames /\ FilePathGiven(t)
                 /\ PyMarkdownApi)
            => response[t] = Raised("Unknown tool")

\* a finished call of an unknown tool on an existing file
C6_Witness ==
    \E t \in Tasks :
        /\ Done(t) /\ PyMarkdownApi
        /\ request[t].name = OtherName
        /\ FilePathGiven(t) /\ OnDisk(Target(t))
        /\ response[t] = Raised("Unknown tool")

\* C7 as stated: a non-empty arguments mapping without file_path (or with an
\* empty one) ends in ValidationError for every tool name and engine state.
C7_FilePathCheckedFirst ==
    \A t \in Tasks :
        (Done(t) /\ DictNonEmpty(Args(t)) /\ ~FilePathGiven(t))
            => Outcome(response[t]) = "ValidationError"

\* C7 amended: a non-empty arguments mapping without file_path (or with an
\* empty one) ends in the raised ValidationError "file_path is required"
\* when the tool is lint_markdown or fix_markdown and the engine is available.
C7_FilePathRequiredForKnownTool ==
    \A t \in Tasks :
        (Done(t) /\ DictNonEmpty(Args(t)) /\ ~FilePathGiven(t)
                 /\ request[t].name \in ToolNames /\ PyMarkdownApi)
            => /\ response[t] = Raised("file_path is required")
               /\ trace[t] = << >>

\* a finished fix whose arguments hold an empty file_path and a config_path
C7_Witness ==
    \E t \in Tasks :
        /\ Done(t) /\ PyMarkdownApi
        /\ request[t].name = "fix_markdown"
        /\ Args(t) = Dict(EmptyStr, PathStr(SuppliedConfig))
        /\ response[t] = Raised("file_path is required")

WellFormed(r) == Outcome(r) # "none"

InWindow(t) == pc[t] \in {"call", "engine"}
OwnText(t) == [i \in 1..emitted[t] |-> [by |-> t, n |-> i]]
CarriesOutput(r) ==
    r.template \in {"Linting errors found in", "Fixed linting issues in",
                    "No auto-fixable issues found in"}

\* C9: with requests delivered concurrently, no two capture windows overlap,
\* each buffer holds exactly the text its own engine call printed, and the
\* captured text of each response is the text of its own engine call.
C9_CaptureWindowsDisjoint ==
    /\ Cardinality({t \in Tasks : InWindow(t)}) <= 1
    /\ \A t \in Tasks :
          /\ InWindow(t) => sys_stdout = t /\ output_buffer[t] = OwnText(t)
          /\ (Done(t) /\ CarriesOutput(response[t])) => response[t].output = OwnText(t)

\* a request is waiting for the loop, delivered before the running one
\* began, while the running one is inside its window with text captured
C9_Witness ==
    \E t, u \in Tasks :
        /\ t # u
        /\ pc[u] = "pending"
        /\ pc[t] = "engine" /\ emitted[t] = MaxEmit
        /\ sys_stdout = t
        /\ output_buffer[t] = OwnText(t)

\* C10: whenever no invocation is inside its capture window, sys.stdout is
\* bound to the original stream, after normal returns and raised failures.
C10_StdoutRestored ==
    (\A t \in Tasks : ~InWindow(t)) => sys_stdout = OrigStream

\* one invocation left its window through an exception, another through a
\* normal return, and the stream is the original one
C10_Witness ==
    \E t, u \in Tasks :
        /\ t # u
        /\ Done(t) /\ Done(u)
        /\ "restore" \in Events(t) /\ Outcome(response[t]) \in {"EngineError", "UnexpectedError"}
        /\ "restore" \in Events(u) /\ Outcome(response[u]) \in {"Success", "NoOp"}
        /\ \A v \in Tasks : ~InWindow(v)
        /\ sys_stdout = OrigStream

EngineReturned(t) == engine_result[t].status = "returned"

\* the captured text of a finished call, or the fallback note when empty
CapturedOr(t, fallback) ==
    IF emitted[t] > 0
    THEN response[t].output = OwnText(t) /\ response[t].note = ""
    ELSE response[t].output = << >> /\ response[t].note = fallback

\* C11: a lint whose scan returned ends in Success decided by the scan
\* result alone: without failures the fixed block "No linting errors found",
\* whatever was captured; with failures the block "Linting errors found"
\* carrying the captured text, or the fallback note when nothing was captured.
C11_LintOutcomeFromScanResult ==
    \A t \in Tasks :
        (Done(t) /\ request[t].name = "lint_markdown" /\ EngineReturned(t))
            => /\ Outcome(response[t]) = "Success"
               /\ ~response[t].raised
               /\ response[t].path = Target(t)
               /\ IF ~engine_result[t].flag
                  THEN response[t] = Returned("No linting errors found in", Target(t), << >>, "")
                  ELSE /\ response[t].template = "Linting errors found in"
                       /\ CapturedOr(t, "Issues found but no detailed output.")

\* a lint with failures and captured text, reported as Success with that text
C11_Witness ==
    \E t \in Tasks :
        /\ Done(t) /\ request[t].name = "lint_markdown"
        /\ EngineReturned(t) /\ engine_result[t].flag
        /\ emitted[t] = MaxEmit
        /\ response[t].template = "Linting errors found in"
        /\ response[t].output = OwnText(t)

\* C12: a fix whose engine call returned ends, by the changed flag alone, in
\* Success ("Fixed linting issues") when files changed and in NoOp ("No
\* auto-fixable issues found") when none did, each carrying the captured
\* text or its own fallback note.
C12_FixOutcomeFromFixResult ==
    \A t \in Tasks :
        (Done(t) /\ request[t].name = "fix_markdown" /\ EngineReturned(t))
            => /\ ~response[t].raised
               /\ response[t].path = Target(t)
               /\ IF engine_result[t].flag
                  THEN /\ Outcome(response[t]) = "Success"
                       /\ response[t].template = "Fixed linting issues in"
                       /\ CapturedOr(t, "All auto-fixable issues have been resolved.")
                  ELSE /\ Outcome(response[t]) = "NoOp"
                       /\ response[t].template = "No auto-fixable issues found in"
                       /\ CapturedOr(t, "File may already be compliant or issues require manual fixing.")

\* a fix that changed nothing and printed nothing, reported as NoOp with
\* the fallback note
C12_Witness ==
    \E t \in Tasks :
        /\ Done(t) /\ request[t].name = "fix_markdown"
        /\ EngineReturned(t) /\ ~engine_result[t].flag
        /\ emitted[t] = 0
        /\ Outcome(response[t]) = "NoOp"
        /\ response[t].note = "File may already be compliant or issues require manual fixing."

Count(t, event) == Cardinality({i \in 1..Len(trace[t]) : trace[t][i] = event})

\* C13: a failure raised while resolving the configuration, configuring or
\* running the engine is reported as a returned block: EngineError with the
\* message for the engine's own exception, UnexpectedError with the message
\* for any other; it is never a Success or NoOp, and nothing was retried.
C13_FailuresReported ==
    \A t \in Tasks :
        (Done(t) /\ engine_result[t].status = "raised")
            => /\ ~response[t].raised
               /\ response[t].note = engine_result[t].exc.msg
               /\ Outcome(response[t]) =
                     IF engine_result[t].exc.kind = "api" THEN "EngineError"
                     ELSE "UnexpectedError"
               /\ engine_result[t].exc.kind = "api" => response[t].path = Target(t)
               /\ Count(t, "construct") = 1
               /\ Count(t, "find_config") <= 1
               /\ Count(t, "configure") <= 1
               /\ Count(t, "engine") <= 1

\* an engine call that printed text and then raised a foreign exception,
\* reported as UnexpectedError
C13_Witness ==
    \E t \in Tasks :
        /\ Done(t)
        /\ engine_result[t].status = "raised" /\ engine_result[t].exc.kind = "other"
        /\ Count(t, "engine") = 1 /\ emitted[t] >= 1
        /\ Outcome(response[t]) = "UnexpectedError"
        /\ response[t].note = "boom"

InstallBlock == Returned("pymarkdownlnt is not installed", << >>, << >>, "")

\* C14: with the engine unavailable, every invocation with non-empty
\* arguments ends in the fixed install-instruction block, and performs no
\* path check, config resolution, redirection or engine call.
C14_UnavailableShortCircuit ==
    \A t \in Tasks :
        (~PyMarkdownApi /\ pc[t] # "idle" /\ DictNonEmpty(Args(t)))
            => /\ trace[t] = << >>
               /\ sys_stdout # t
               /\ engine_result[t] = NoResult
               /\ Done(t) => response[t] = InstallBlock

\* an unknown tool without file_path, answered with the install block
C14_Witness ==
    \E t \in Tasks :
        /\ ~PyMarkdownApi /\ Done(t)
        /\ request[t].name = OtherName
        /\ Args(t) = Dict(Missing, PathStr(SuppliedConfig))
        /\ response[t] = InstallBlock

SchemaAsDeclared(schema) ==
    /\ DOMAIN schema.properties = {"file_path", "config_path"}
    /\ schema.properties.file_path = "string"
    /\ schema.properties.config_path = "string"
    /\ schema.required = <<"file_path">>

\* C15: whenever handle_list_tools has returned, whatever was listed or
\* invoked before and whether or not the engine is available, its value is
\* the two descriptors lint_markdown, fix_markdown in this order, with
\* distinct names, each requiring file_path (string) and accepting
\* config_path (string).
C15_CatalogFixed ==
    tools_listed # NotListed
        => /\ Len(tools_listed) = 2
           /\ tools_listed[1].name = "lint_markdown"
           /\ tools_listed[2].name = "fix_markdown"
           /\ tools_listed[1].name # tools_listed[2].name
           /\ \A i \in 1..2 : SchemaAsDeclared(tools_listed[i].inputSchema)

\* the catalog listed with the engine unavailable and an invocation finished
C15_Witness ==
    /\ tools_listed # NotListed
    /\ ~PyMarkdownApi
    /\ \E t \in Tasks : Done(t) /\ response[t] = InstallBlock

Rank(event) ==
    CASE event = "resolve" -> 1
      [] event = "exists" -> 2
      [] event = "construct" -> 3
      [] event = "find_config" -> 4
      [] event = "configure" -> 5
      [] event = "redirect" -> 6
      [] event = "engine" -> 7
      [] event = "restore" -> 8

\* the steps taken so far follow the order validation, config resolution,
\* engine call, and none is taken twice
InOrder(t) ==
    \A i, j \in 1..Len(trace[t]) : i < j => Rank(trace[t][i]) < Rank(trace[t][j])

\* no filesystem or engine step before arguments, engine availability and
\* tool name were validated
ValidatedFirst(t) ==
    trace[t] # << >>
        => DictNonEmpty(Args(t)) /\ PyMarkdownApi /\ request[t].name \in ToolNames
           /\ FilePathGiven(t)

\* the effective configuration was determined and applied
ConfigDetermined(t) ==
    /\ Args(t).config_path.kind = "path" \/ "find_config" \in Events(t)
    /\ api_config[t] = IF config_path[t].kind = "path" THEN config_path[t] ELSE Missing

EngineLast(t) ==
    "engine" \in Events(t)
        => "exists" \in Events(t) /\ OnDisk(Target(t)) /\ ConfigDetermined(t)

OutcomeAtEnd(t) == (response[t] # NoResponse) <=> Done(t)

StepOrder == \A t \in Tasks : InOrder(t) /\ ValidatedFirst(t) /\ EngineLast(t) /\ OutcomeAtEnd(t)

\* once the outcome is produced the invocation takes no further step
NothingAfterOutcome ==
    \A t \in Tasks :
        (Done(t) /\ pc'[t] = "done")
            => trace'[t] = trace[t] /\ response'[t] = response[t]

\* C16: within an invocation the steps occur only in the order validation
\* (arguments, engine availability, path existence), config resolution,
\* engine call, outcome: the engine is called only after the existence check
\* and with the configuration determined, at most once, and no step follows
\* the outcome.
C16_StepOrder == [](StepOrder) /\ [][NothingAfterOutcome]_vars

\* an invocation that went through every step once and has its outcome
C16_Witness ==
    \E t \in Tasks :
        /\ Done(t)
        /\ trace[t] = <<"resolve", "exists", "construct", "find_config",
                        "configure", "redirect", "engine", "restore">>
        /\ response[t] # NoResponse

\* the invocation is past the step that applies the configuration
Configured(t) == "redirect" \in Events(t)
Discovered(t) ==
    LET found == find_config_file([abs |-> TRUE, parts |-> Target(t)])
    IN  IF found.some THEN StrOf(found.path) ELSE Missing

AscentBounded ==
    fc_pc \in {"loop", "returned"}
        => LET start == SearchStart(fc_target)
           IN  /\ fc_ascents <= Len(start)
               /\ fc_dir = SubSeq(start, 1, Len(start) - fc_ascents)
               /\ fc_pc = "returned"
                     => /\ fc_result.some \/ fc_dir = Root
                        /\ fc_result = find_config_file(fc_target)

\* C18: the ascent terminates: every iteration without a match moves to the
\* strict parent, so after at most depth-many ascents the loop has returned
\* a match or reached the directory that is its own parent.
C18_AscentTerminates ==
    [](AscentBounded) /\ (fc_pc = "loop" ~> fc_pc = "returned")

\* a search from depth two or more that climbed all the way to the root
C18_Witness ==
    /\ fc_pc = "returned"
    /\ Len(SearchStart(fc_target)) >= 2
    /\ fc_ascents = Len(SearchStart(fc_target))
    /\ fc_dir = Root
    /\ fc_result = None

QuietOutcomes == {"ValidationError", "UnknownOperation", "EngineUnavailable", "NotFound"}

\* the stream is, and has always been, out of the hands of invocation t
StdoutUntouched(t) ==
    /\ sys_stdout # t
    /\ "redirect" \notin Events(t)
    /\ original_stdout[t] = OrigStream
    /\ output_buffer[t] = << >>

\* everything that precedes line 148 / 223 on the path to the engine call
WindowPreconditions(t) ==
    /\ request[t].name \in ToolNames
    /\ PyMarkdownApi
    /\ FilePathGiven(t) /\ OnDisk(Target(t))
    /\ {"resolve", "exists", "construct"} \subseteq Events(t)
    /\ ConfigDetermined(t)

\* C19: an invocation that ends in ValidationError, UnknownOperation,
\* EngineUnavailable or NotFound never touches sys.stdout; the stream is
\* redirected only for a known tool with an existing target file, after the
\* configuration has been resolved and applied.
C19_QuietOutcomesLeaveStdout ==
    \A t \in Tasks :
        /\ (sys_stdout = t \/ "redirect" \in Events(t)) => WindowPreconditions(t)
        /\ (Done(t) /\ Outcome(response[t]) \in QuietOutcomes) => StdoutUntouched(t)
        /\ (pc[t] \notin {"idle", "done"} /\ ~WindowPreconditions(t)) => StdoutUntouched(t)

\* a fix request with its own configuration for a file that does not exist
\* has ended in NotFound with the stream still the original one
C19_Witness ==
    \E t \in Tasks :
        /\ Done(t)
        /\ request[t].name = "fix_markdown"
        /\ Args(t).config_path = PathStr(SuppliedConfig)
        /\ Outcome(response[t]) = "NotFound"
        /\ sys_stdout = OrigStream
        /\ StdoutUntouched(t)

====
